---- MODULE Spec2Model ----
(***************************************************************************)
(* Model of scripts/generate_catalog.py: the derivation of the operation   *)
(* catalog and the pagination map from a Swagger 2.0 document and an       *)
(* optional paging registry.                                               *)
(*                                                                         *)
(* Python values are represented as follows.                               *)
(*   str            a TLA+ string; f-strings are \o concatenations         *)
(*   None           the string None (no input string equals it)            *)
(*   dict           a function over its key set; insertion is :> and @@    *)
(*   schema node    [kind, ref, props]: kind "None" for null and "dict"    *)
(*                  for a mapping; ref is the "$ref" string cut into       *)
(*                  tokens (<<>> when the key is absent); props is the     *)
(*                  "properties" mapping in declaration order, a sequence  *)
(*                  of <<name, type>> (every property schema a mapping)    *)
(*   response       [kind, schema]: kind "absent" (no such status code),   *)
(*                  "nondict", "noschema" (a mapping without "schema"),    *)
(*                  "schema" (a mapping with the key "schema")             *)
(*   registry line  [kind, key, field, value]: the line after the          *)
(*                  split/strip of load_paging_registry                    *)
(***************************************************************************)
EXTENDS Integers, Sequences, FiniteSets, TLC

VARIABLES
    pc,                 \* position of main()
    swagger_exists,     \* whether args.swagger names an existing file
    registry_arg,       \* args.paging_registry: "none", "missing" or "file"
    nlines,             \* lines of the registry file read so far
    current_key,        \* load_paging_registry: current_key
    overrides,          \* load_paging_registry: overrides
    paging_registry,    \* main: paging_registry
    walked,             \* (path, method key) pairs iterated so far, in order
    seen_catalog_keys,  \* make_catalog: seen_catalog_keys
    operations,         \* make_catalog: operations
    paging,             \* make_catalog: paging
    last,               \* make_catalog: locals of the latest loop iteration
    files,              \* output files written so far
    call                \* a single call of one of the nested helper functions

vars == <<pc, swagger_exists, registry_arg, nlines, current_key, overrides,
          paging_registry, walked, seen_catalog_keys, operations, paging,
          last, files, call>>

None == "<None>"

EmptyDict == [k \in {} |-> None]

Range(s) == {s[i] : i \in 1..Len(s)}

HTTP_METHODS == {"get", "post", "put", "delete", "patch", "head", "options"}

\* str.lower() and str.upper() on the keys a path item of the model holds
Lower(s) ==
    CASE s = "GET" -> "get"
      [] s = "POST" -> "post"
      [] OTHER -> s

Upper(s) ==
    CASE s = "get" -> "GET"
      [] s = "post" -> "POST"
      [] s = "parameters" -> "PARAMETERS"
      [] OTHER -> s

(***************************************************************************)
(* Schema nodes and the helper functions nested in make_catalog.           *)
(***************************************************************************)
NoneSchema == [kind |-> "None", ref |-> <<>>, props |-> <<>>]

EmptySchema == [kind |-> "dict", ref |-> <<>>, props |-> <<>>]

Inline(props) == [kind |-> "dict", ref |-> <<>>, props |-> props]

\* bool(schema): None and {} are falsy
Truthy(schema) ==
    schema.kind = "dict" /\ (schema.ref # <<>> \/ schema.props # <<>>)

\* re.match(r"#/definitions/(.+)", ref): anchored at the start of the string,
\* at least one character after the prefix
RefMatches(ref) == Len(ref) >= 2 /\ ref[1] = "#/definitions/"

RECURSIVE Join(_)
Join(toks) == IF toks = <<>> THEN "" ELSE Head(toks) \o Join(Tail(toks))

\* m.group(1)
RefName(ref) == Join(Tail(ref))

\* variant: the pattern searched anywhere in the string (re.search)
resolve_ref_ext(defs, schema) ==
    IF ~Truthy(schema) \/ schema.ref = <<>> THEN schema
    ELSE IF \E i \in 1..Len(schema.ref) : schema.ref[i] = "#/definitions/"
              /\ i < Len(schema.ref)
         THEN LET i == CHOOSE j \in 1..Len(schema.ref) :
                           schema.ref[j] = "#/definitions/" /\ j < Len(schema.ref)
                  name == Join(SubSeq(schema.ref, i + 1, Len(schema.ref)))
              IN IF name \in DOMAIN defs THEN defs[name] ELSE EmptySchema
         ELSE schema

\* lines 71-77
resolve_ref(defs, schema) ==
    IF ~Truthy(schema) \/ schema.ref = <<>> THEN schema
    ELSE IF ~RefMatches(schema.ref) THEN schema
    ELSE IF RefName(schema.ref) \in DOMAIN defs THEN defs[RefName(schema.ref)]
    ELSE EmptySchema

\* (schema or {}).get("properties", {})
PropsOf(schema) == IF schema.kind = "None" THEN <<>> ELSE schema.props

\* lines 79-81: the keys of "properties", in declaration order
schema_top_props(defs, schema) ==
    LET props == PropsOf(resolve_ref(defs, schema))
    IN [i \in 1..Len(props) |-> props[i][1]]

HasArray(props, name) ==
    \E i \in 1..Len(props) : props[i][1] = name /\ props[i][2] = "array"

FirstArray(props) ==
    IF \E i \in 1..Len(props) : props[i][2] = "array"
    THEN LET i == CHOOSE j \in 1..Len(props) :
                      /\ props[j][2] = "array"
                      /\ \A h \in 1..(j - 1) : props[h][2] # "array"
         IN "$." \o props[i][1]
    ELSE None

\* variant: the priority names tested for presence only
infer_items_path_present(defs, schema) ==
    LET props == PropsOf(resolve_ref(defs, schema))
        Has(name) == \E i \in 1..Len(props) : props[i][1] = name
    IN IF Has("entities") THEN "$.entities"
       ELSE IF Has("results") THEN "$.results"
       ELSE IF Has("conversations") THEN "$.conversations"
       ELSE FirstArray(props)

\* lines 83-95
infer_items_path(defs, schema) ==
    LET props == PropsOf(resolve_ref(defs, schema))
    IN IF HasArray(props, "entities") THEN "$.entities"
       ELSE IF HasArray(props, "results") THEN "$.results"
       ELSE IF HasArray(props, "conversations") THEN "$.conversations"
       ELSE FirstArray(props)

\* variant: the cursor rule tested before the nextUri rule
classify_paging_cursor_first(props) ==
    LET s == Range(props)
    IN IF "cursor" \in s THEN "CURSOR"
       ELSE IF "nextUri" \in s THEN "NEXT_URI"
       ELSE IF "nextPage" \in s THEN "NEXT_PAGE"
       ELSE IF "after" \in s THEN "AFTER"
       ELSE IF {"pageNumber", "pageSize"} \subseteq s
               /\ ("pageCount" \in s \/ "total" \in s \/ "totalCount" \in s)
            THEN "PAGE_NUMBER"
       ELSE IF "totalHits" \in s THEN "TOTALHITS"
       ELSE IF "startIndex" \in s /\ "pageSize" \in s THEN "START_INDEX"
       ELSE "UNKNOWN"

\* lines 97-113
classify_paging(props) ==
    LET s == Range(props)
    IN IF "nextUri" \in s THEN "NEXT_URI"
       ELSE IF "nextPage" \in s THEN "NEXT_PAGE"
       ELSE IF "cursor" \in s THEN "CURSOR"
       ELSE IF "after" \in s THEN "AFTER"
       ELSE IF {"pageNumber", "pageSize"} \subseteq s
               /\ ("pageCount" \in s \/ "total" \in s \/ "totalCount" \in s)
            THEN "PAGE_NUMBER"
       ELSE IF "totalHits" \in s THEN "TOTALHITS"
       ELSE IF "startIndex" \in s /\ "pageSize" \in s THEN "START_INDEX"
       ELSE "UNKNOWN"

(***************************************************************************)
(* make_catalog, lines 163-173: the response scan and the heuristics.      *)
(***************************************************************************)
ScanCodes == <<"200", "201", "202", "203", "204", "default">>

\* responses.get(code): None when the status code is not declared
Candidate(responses, code) ==
    IF code \in DOMAIN responses THEN responses[code]
    ELSE [kind |-> "absent", schema |-> NoneSchema]

\* lines 165-169: the for loop, from the i-th status code on
RECURSIVE ScanFrom(_, _)
ScanFrom(responses, i) ==
    IF i > Len(ScanCodes) THEN NoneSchema
    ELSE IF Candidate(responses, ScanCodes[i]).kind = "schema"
         THEN Candidate(responses, ScanCodes[i]).schema
         ELSE ScanFrom(responses, i + 1)

\* variant: the scan ends at the first declared response mapping
RECURSIVE ScanFromFirstDeclared(_, _)
ScanFromFirstDeclared(responses, i) ==
    IF i > Len(ScanCodes) THEN NoneSchema
    ELSE IF Candidate(responses, ScanCodes[i]).kind = "schema"
         THEN Candidate(responses, ScanCodes[i]).schema
         ELSE IF Candidate(responses, ScanCodes[i]).kind = "noschema"
              THEN NoneSchema
              ELSE ScanFromFirstDeclared(responses, i + 1)

select_first_declared(responses) == ScanFromFirstDeclared(responses, 1)

select_response_schema(responses) == ScanFrom(responses, 1)

\* lines 171-173, for the response schema the scan selected
Heuristics(defs, response_schema) ==
    [top_props |-> IF Truthy(response_schema)
                   THEN schema_top_props(defs, response_schema) ELSE <<>>,
     items_path |-> IF Truthy(response_schema)
                    THEN infer_items_path(defs, response_schema) ELSE None,
     paging_type |-> IF Truthy(response_schema)
                     THEN classify_paging(schema_top_props(defs, response_schema))
                     ELSE "UNKNOWN"]

(***************************************************************************)
(* make_catalog, lines 142-148: the operation identifier and the key.      *)
(***************************************************************************)
\* op_item.get("operationId") or f"{method_l}_{api_path}"
OperationId(op_item, method_l, api_path) ==
    IF op_item.operationId # None /\ op_item.operationId # ""
    THEN op_item.operationId
    ELSE method_l \o "_" \o api_path

\* lines 145-147: the while loop
RECURSIVE NextFree(_, _, _, _)
NextFree(op_id, seen, catalog_key, suffix) ==
    IF catalog_key \in seen
    THEN NextFree(op_id, seen, op_id \o "__" \o ToString(suffix), suffix + 1)
    ELSE catalog_key

\* variant: the suffix 2 tried once, without the loop
SuffixOnce(op_id, seen) ==
    IF op_id \in seen THEN op_id \o "__" \o ToString(2) ELSE op_id

\* lines 143-147
AssignKey(op_id, seen) == NextFree(op_id, seen, op_id, 2)

(***************************************************************************)
(* make_catalog, lines 175-178: the registry override.                     *)
(***************************************************************************)
\* dict.get(key): None and {} are both falsy and stand as the empty mapping
Get(d, key) == IF key \in DOMAIN d THEN d[key] ELSE EmptyDict

\* paging_registry.get(catalog_key) or paging_registry.get(op_id)
Lookup(registry, catalog_key, op_id) ==
    IF DOMAIN Get(registry, catalog_key) # {} THEN Get(registry, catalog_key)
    ELSE Get(registry, op_id)

\* variant: an entry without itemsPath clears the items path
ReplaceBoth(override, paging_type, items_path) ==
    IF DOMAIN override # {}
    THEN [paging_type |-> IF "type" \in DOMAIN override
                          THEN override["type"] ELSE paging_type,
          items_path |-> IF "itemsPath" \in DOMAIN override
                         THEN override["itemsPath"] ELSE None]
    ELSE [paging_type |-> paging_type, items_path |-> items_path]

\* lines 176-178
ApplyOverride(override, paging_type, items_path) ==
    IF DOMAIN override # {}
    THEN [paging_type |-> IF "type" \in DOMAIN override
                          THEN override["type"] ELSE paging_type,
          items_path |-> IF "itemsPath" \in DOMAIN override
                         THEN override["itemsPath"] ELSE items_path]
    ELSE [paging_type |-> paging_type, items_path |-> items_path]

(***************************************************************************)
(* make_catalog, lines 182-202: the two records of an operation.  The      *)
(* fields the paging logic does not read (tags, summary, description,      *)
(* security, requiredPermissions, parameters) are left out.                *)
(***************************************************************************)
OperationRecord(catalog_key, op_id, method, api_path, top_props, eff) ==
    [catalogKey |-> catalog_key,
     operationId |-> op_id,
     method |-> Upper(method),
     path |-> api_path,
     responseTopLevelProperties |-> top_props,
     responseItemsPath |-> eff.items_path,
     pagingType |-> eff.paging_type]

PagingRecord(top_props, eff) ==
    [type |-> eff.paging_type,
     itemsPath |-> eff.items_path,
     responseProps |-> top_props]

\* d[key] = value
Put(d, key, value) == (key :> value) @@ d

\* variant: no paging record for an operation of type UNKNOWN
PutUnlessUnknown(d, key, value) ==
    IF value.type = "UNKNOWN" THEN d ELSE Put(d, key, value)

PutPaging(d, key, value) == Put(d, key, value)

(***************************************************************************)
(* load_paging_registry: one line of the registry file.                    *)
(***************************************************************************)
\* line 56: "if current_key" is false for None and for the empty string
KeyIsSet(key) == key # None /\ key # ""

\* lines 43-61, on the state [current_key, overrides]
ParseLine(st, line) ==
    CASE line.kind = "key" ->
             [current_key |-> line.key,
              overrides |-> Put(st.overrides, line.key, EmptyDict)]
      [] line.kind = "top" ->
             [current_key |-> None, overrides |-> st.overrides]
      [] line.kind = "field" /\ KeyIsSet(st.current_key) /\ line.value # "" ->
             [current_key |-> st.current_key,
              overrides |-> Put(st.overrides, st.current_key,
                                Put(st.overrides[st.current_key],
                                    line.field, line.value))]
      [] OTHER -> st

\* line 63: {k: v for k, v in overrides.items() if v}
NonEmptyEntries(d) == [k \in {j \in DOMAIN d : DOMAIN d[j] # {}} |-> d[k]]

(***************************************************************************)
(* Bounds and the inputs of a run.                                         *)
(***************************************************************************)
MaxLines == 4

MaxOps == 3

MaxProps == 3

MaxResponses == 2

RegKeys == {"x", "x__2", ""}

RegFields ==
    {<<"type", "TOTALHITS">>, <<"type", "FOO">>, <<"type", "">>,
     <<"itemsPath", "$.conversations">>, <<"itemsPath", "">>}

Line(kind, key, field, value) ==
    [kind |-> kind, key |-> key, field |-> field, value |-> value]

\* "skip": blank, comment or "---"; "key": a top-level line ending in ":";
\* "top": another top-level line; "field": an indented "field: value" line;
\* "plain": an indented line without ":"
RegLines ==
    {Line("skip", None, None, None), Line("top", None, None, None),
     Line("plain", None, None, None)}
    \cup {Line("key", k, None, None) : k \in RegKeys}
    \cup {Line("field", None, f[1], f[2]) : f \in RegFields}

Ref(toks) == [kind |-> "dict", ref |-> toks, props |-> <<>>]

Response(schema) == [kind |-> "schema", schema |-> schema]

MainDefs ==
    "Page" :> Inline(<<<<"cursor", "string">>, <<"items", "array">>>>)

\* the (path, key) pairs of the document's "paths" mapping
Entries ==
    {<<"/a", "GET">>, <<"/a", "get">>, <<"/a", "parameters">>, <<"/b", "get">>}

OpItems ==
    [operationId : {None, "x", "x__2"},
     responses : {EmptyDict,
                  "200" :> Response(Ref(<<"#/definitions/", "Page">>))}]

NoCall == [fn |-> None]

NoLast ==
    [catalog_key |-> None, op_id |-> None, api_path |-> None, method |-> None,
     heur |-> Heuristics(MainDefs, NoneSchema), override |-> EmptyDict,
     eff |-> [paging_type |-> "UNKNOWN", items_path |-> None]]

(***************************************************************************)
(* main(): one run of the generator.                                       *)
(***************************************************************************)
Init ==
    /\ pc = "load_json"
    /\ swagger_exists \in BOOLEAN
    /\ registry_arg \in {"none", "missing", "file"}
    /\ nlines = 0
    /\ current_key = None
    /\ overrides = EmptyDict
    /\ paging_registry = EmptyDict
    /\ walked = <<>>
    /\ seen_catalog_keys = {}
    /\ operations = EmptyDict
    /\ paging = EmptyDict
    /\ last = NoLast
    /\ files = {}
    /\ call = NoCall

\* variant: a missing document read as an empty one
AfterLoadJsonLenient(exists) == "load_paging_registry"

\* line 219, load_json: open() raises when the file does not exist
AfterLoadJson(exists) == IF exists THEN "load_paging_registry" ELSE "aborted"

LoadJson ==
    /\ pc = "load_json"
    /\ pc' = AfterLoadJson(swagger_exists)
    /\ UNCHANGED <<swagger_exists, registry_arg, nlines, current_key, overrides,
                   paging_registry, walked, seen_catalog_keys, operations,
                   paging, last, files, call>>

\* lines 33-36: no path given, or the path does not exist
RegistryAbsent ==
    /\ pc = "load_paging_registry"
    /\ registry_arg \in {"none", "missing"}
    /\ paging_registry' = EmptyDict
    /\ pc' = "make_catalog"
    /\ UNCHANGED <<swagger_exists, registry_arg, nlines, current_key, overrides,
                   walked, seen_catalog_keys, operations, paging, last, files,
                   call>>

\* lines 38-41
OpenRegistry ==
    /\ pc = "load_paging_registry"
    /\ registry_arg = "file"
    /\ overrides' = EmptyDict
    /\ current_key' = None
    /\ pc' = "parse_registry"
    /\ UNCHANGED <<swagger_exists, registry_arg, nlines, paging_registry,
                   walked, seen_catalog_keys, operations, paging, last, files,
                   call>>

\* lines 42-61, one iteration
ReadRegistryLine ==
    /\ pc = "parse_registry"
    /\ nlines < MaxLines
    /\ \E line \in RegLines :
         LET st == ParseLine([current_key |-> current_key,
                              overrides |-> overrides], line)
         IN /\ current_key' = st.current_key
            /\ overrides' = st.overrides
    /\ nlines' = nlines + 1
    /\ UNCHANGED <<pc, swagger_exists, registry_arg, paging_registry, walked,
                   seen_catalog_keys, operations, paging, last, files, call>>

\* line 63, at the end of the file; the locals of the call end with it
ReturnRegistry ==
    /\ pc = "parse_registry"
    /\ paging_registry' = NonEmptyEntries(overrides)
    /\ nlines' = 0
    /\ current_key' = None
    /\ overrides' = EmptyDict
    /\ pc' = "make_catalog"
    /\ UNCHANGED <<swagger_exists, registry_arg, walked, seen_catalog_keys,
                   operations, paging, last, files, call>>

\* dict iteration: each (path, key) once, the keys of one path item together
MayWalk(api_path, method) ==
    /\ \A i \in 1..Len(walked) :
         ~(walked[i].api_path = api_path /\ walked[i].method = method)
    /\ IF walked # <<>> /\ walked[Len(walked)].api_path # api_path
       THEN \A i \in 1..Len(walked) : walked[i].api_path # api_path
       ELSE TRUE

\* lines 138-140: a key of the path item that is no HTTP method
SkipNonMethod ==
    /\ pc = "make_catalog"
    /\ Len(walked) < MaxOps
    /\ \E entry \in Entries :
         LET api_path == entry[1]
             method == entry[2]
         IN
         /\ MayWalk(api_path, method)
         /\ Lower(method) \notin HTTP_METHODS
         /\ walked' = Append(walked, [api_path |-> api_path, method |-> method,
                                      catalog_key |-> None])
    /\ UNCHANGED <<pc, swagger_exists, registry_arg, nlines, current_key,
                   overrides, paging_registry, seen_catalog_keys, operations,
                   paging, last, files, call>>

\* lines 138-202: one operation
ProcessOperation ==
    /\ pc = "make_catalog"
    /\ Len(walked) < MaxOps
    /\ \E entry \in Entries, op_item \in OpItems :
         LET api_path == entry[1]
             method == entry[2]
         IN
         /\ MayWalk(api_path, method)
         /\ Lower(method) \in HTTP_METHODS
         /\ LET method_l == Lower(method)
                op_id == OperationId(op_item, method_l, api_path)
                catalog_key == AssignKey(op_id, seen_catalog_keys)
                response_schema == select_response_schema(op_item.responses)
                heur == Heuristics(MainDefs, response_schema)
                override == Lookup(paging_registry, catalog_key, op_id)
                eff == ApplyOverride(override, heur.paging_type, heur.items_path)
            IN /\ seen_catalog_keys' = seen_catalog_keys \cup {catalog_key}
               /\ operations' =
                      Put(operations, catalog_key,
                          OperationRecord(catalog_key, op_id, method, api_path,
                                          heur.top_props, eff))
               /\ paging' = PutPaging(paging, catalog_key,
                                      PagingRecord(heur.top_props, eff))
               /\ walked' = Append(walked, [api_path |-> api_path,
                                            method |-> method,
                                            catalog_key |-> catalog_key])
               /\ last' = [catalog_key |-> catalog_key, op_id |-> op_id,
                           api_path |-> api_path, method |-> method,
                           heur |-> heur, override |-> override, eff |-> eff]
    /\ UNCHANGED <<pc, swagger_exists, registry_arg, nlines, current_key,
                   overrides, paging_registry, files, call>>

\* line 204: operations and paging are returned, the other locals end
ReturnCatalog ==
    /\ pc = "make_catalog"
    /\ walked' = <<>>
    /\ seen_catalog_keys' = {}
    /\ last' = NoLast
    /\ pc' = "write_operations"
    /\ UNCHANGED <<swagger_exists, registry_arg, nlines, current_key, overrides,
                   paging_registry, operations, paging, files, call>>

Write(at, name, next) ==
    /\ pc = at
    /\ files' = files \cup {name}
    /\ pc' = next
    /\ UNCHANGED <<swagger_exists, registry_arg, nlines, current_key, overrides,
                   paging_registry, walked, seen_catalog_keys, operations,
                   paging, last, call>>

\* lines 223-225
WriteOperations == Write("write_operations", "operations.json", "write_paging")

\* lines 227-228
WritePagination == Write("write_paging", "pagination-map.json", "write_stamp")

\* lines 230-231
WriteGeneratedAt == Write("write_stamp", "generated-at.txt", "done")

Next ==
    \/ LoadJson
    \/ RegistryAbsent
    \/ OpenRegistry
    \/ ReadRegistryLine
    \/ ReturnRegistry
    \/ SkipNonMethod
    \/ ProcessOperation
    \/ ReturnCatalog
    \/ WriteOperations
    \/ WritePagination
    \/ WriteGeneratedAt

Spec == Init /\ [][Next]_vars

(***************************************************************************)
(* Single calls of the helper functions, on inputs drawn from bounded      *)
(* sets.  The variables of main() stay at their initial values.            *)
(***************************************************************************)
IdleMain ==
    /\ pc = "call"
    /\ swagger_exists = TRUE
    /\ registry_arg = "none"
    /\ nlines = 0
    /\ current_key = None
    /\ overrides = EmptyDict
    /\ paging_registry = EmptyDict
    /\ walked = <<>>
    /\ seen_catalog_keys = {}
    /\ operations = EmptyDict
    /\ paging = EmptyDict
    /\ last = NoLast
    /\ files = {}

mainVars ==
    <<pc, swagger_exists, registry_arg, nlines, current_key, overrides,
      paging_registry, walked, seen_catalog_keys, operations, paging, last,
      files>>

Reverse(s) == [i \in 1..Len(s) |-> s[Len(s) + 1 - i]]

\* the property names classify_paging tests, and one it does not
NameOrder ==
    <<"nextUri", "nextPage", "cursor", "after", "pageNumber", "pageSize",
      "pageCount", "total", "totalCount", "totalHits", "startIndex", "entities">>

\* every set of these names, as a list in either order
PropertyLists ==
    LET InOrder(S) == SelectSeq(NameOrder, LAMBDA n : n \in S)
    IN {InOrder(S) : S \in SUBSET Range(NameOrder)}
       \cup {Reverse(InOrder(S)) : S \in SUBSET Range(NameOrder)}

InitClassify ==
    /\ IdleMain
    /\ call \in [fn : {"classify_paging"}, props : PropertyLists,
                 done : {FALSE}, ret : {None}]

CallClassifyPaging ==
    /\ pc = "call"
    /\ call.fn = "classify_paging"
    /\ ~call.done
    /\ call' = [call EXCEPT !.done = TRUE, !.ret = classify_paging(call.props)]
    /\ UNCHANGED mainVars

NextClassify == CallClassifyPaging

SpecClassify == InitClassify /\ [][NextClassify]_vars

ItemNames == {"entities", "results", "conversations", "items", "data"}

ItemTypes == {"array", "string"}

\* "properties" mappings of at most MaxProps properties, in every order
ItemProps ==
    UNION {{p \in [1..n -> ItemNames \X ItemTypes] :
              \A i, j \in 1..n : i # j => p[i][1] # p[j][1]} : n \in 0..MaxProps}

PageRef == <<"#/definitions/", "Page">>

NonMatchingRefs ==
    {<<"other.json", "#/definitions/", "Page">>, <<"#/definitions/">>,
     <<"#/components/schemas/", "Page">>}

\* a definitions table and a schema node, built around one properties mapping
ItemInputs ==
    UNION {
      {[defs |-> EmptyDict, schema |-> Inline(p)],
       [defs |-> EmptyDict, schema |-> NoneSchema],
       [defs |-> "Page" :> Inline(p), schema |-> Ref(PageRef)],
       [defs |-> "Page" :> Inline(<<<<"data", "array">>>>),
        schema |-> [kind |-> "dict", ref |-> PageRef, props |-> p]],
       [defs |-> "Page" :> Inline(p),
        schema |-> Ref(<<"#/definitions/", "Missing">>)],
       [defs |-> ("Alias" :> Ref(PageRef)) @@ ("Page" :> Inline(p)),
        schema |-> Ref(<<"#/definitions/", "Alias">>)]}
      \cup {[defs |-> "Page" :> Inline(<<<<"data", "array">>>>),
             schema |-> [kind |-> "dict", ref |-> r, props |-> p]] :
               r \in NonMatchingRefs}
      : p \in ItemProps}

InitItems ==
    /\ IdleMain
    /\ \E in \in ItemInputs :
         call = [fn |-> "infer_items_path", defs |-> in.defs,
                 schema |-> in.schema, done |-> FALSE, ret |-> None]

CallInferItemsPath ==
    /\ pc = "call"
    /\ call.fn = "infer_items_path"
    /\ ~call.done
    /\ call' = [call EXCEPT !.done = TRUE,
                            !.ret = infer_items_path(call.defs, call.schema)]
    /\ UNCHANGED mainVars

NextItems == CallInferItemsPath

SpecItems == InitItems /\ [][NextItems]_vars

ShapeDefs ==
    "Page" :> Inline(<<<<"nextUri", "string">>, <<"entities", "array">>>>)

ShapeSchemas ==
    {NoneSchema,
     Inline(<<<<"cursor", "string">>, <<"items", "array">>>>),
     Ref(PageRef),
     Ref(<<"other.json", "#/definitions/", "Page">>),
     [kind |-> "dict", ref |-> <<"other.json", "#/definitions/", "Page">>,
      props |-> <<<<"totalHits", "string">>, <<"conversations", "array">>>>],
     [kind |-> "dict", ref |-> <<"#/definitions/">>,
      props |-> <<<<"startIndex", "string">>, <<"pageSize", "string">>>>]}

ShapeCandidates ==
    {[kind |-> "nondict", schema |-> NoneSchema],
     [kind |-> "noschema", schema |-> NoneSchema]}
    \cup {Response(sch) : sch \in ShapeSchemas}

\* the status codes of the scan and one the scan does not read
ShapeCodes == Range(ScanCodes) \cup {"404"}

\* "responses" mappings declaring at most MaxResponses status codes
ShapeResponses ==
    UNION {[C -> ShapeCandidates] :
             C \in {D \in SUBSET ShapeCodes : Cardinality(D) <= MaxResponses}}

InitShape ==
    /\ IdleMain
    /\ \E r \in ShapeResponses :
         call = [fn |-> "scan", defs |-> ShapeDefs, responses |-> r,
                 response_schema |-> NoneSchema,
                 ret |-> Heuristics(ShapeDefs, NoneSchema)]

\* lines 163-169
ScanResponses ==
    /\ pc = "call"
    /\ call.fn = "scan"
    /\ call' = [call EXCEPT !.fn = "inspect",
                  !.response_schema = select_response_schema(call.responses)]
    /\ UNCHANGED mainVars

\* lines 171-173
InspectSchema ==
    /\ pc = "call"
    /\ call.fn = "inspect"
    /\ call' = [call EXCEPT !.fn = "done",
                  !.ret = Heuristics(call.defs, call.response_schema)]
    /\ UNCHANGED mainVars

NextShape == ScanResponses \/ InspectSchema

SpecShape == InitShape /\ [][NextShape]_vars

(***************************************************************************)
(* Properties.                                                             *)
(***************************************************************************)
PagingTypes ==
    {"NEXT_URI", "NEXT_PAGE", "CURSOR", "AFTER", "PAGE_NUMBER", "TOTALHITS",
     "START_INDEX", "UNKNOWN"}

AllOutputs == {"operations.json", "pagination-map.json", "generated-at.txt"}

\* the positions of walked that were operations (not skipped keys)
Processed == {i \in 1..Len(walked) : walked[i].catalog_key # None}

\* C1: no two operations of a run are assigned the same catalog key: every
\* record is stored under its own key, the keys assigned to the processed
\* operations are pairwise distinct, there are as many records as processed
\* operations, and each operation's record is still the one written for it.
C1_UniqueCatalogKeys ==
    /\ \A k \in DOMAIN operations : operations[k].catalogKey = k
    /\ pc = "make_catalog" =>
         /\ \A i, j \in Processed :
              i # j => walked[i].catalog_key # walked[j].catalog_key
         /\ Cardinality(DOMAIN operations) = Cardinality(Processed)
         /\ seen_catalog_keys = DOMAIN operations
         /\ \A i \in Processed :
              /\ walked[i].catalog_key \in DOMAIN operations
              /\ operations[walked[i].catalog_key].path = walked[i].api_path
              /\ operations[walked[i].catalog_key].method
                     = Upper(walked[i].method)

\* a declared "x__2", then two operations declaring "x": the second "x" finds
\* both "x" and "x__2" taken
C1_Witness ==
    /\ pc = "make_catalog"
    /\ {"x", "x__2", "x__3"} \subseteq DOMAIN operations
    /\ operations["x__2"].operationId = "x__2"
    /\ operations["x__3"].operationId = "x"

\* C2: at every point of a run the operations mapping and the pagination
\* mapping have the same key set, also for operations of type UNKNOWN.
C2_SameKeySets == DOMAIN operations = DOMAIN paging

C2_Witness ==
    \E k \in DOMAIN operations :
        /\ k \in DOMAIN paging
        /\ paging[k].type = "UNKNOWN"
        /\ paging[k].responseProps = <<>>
        /\ pc = "done"

\* C3: the paging type of every operation record and every paging record is
\* one of the eight tags of the closed set, also after a registry override.
C3_PagingTypeClosed ==
    /\ \A k \in DOMAIN operations : operations[k].pagingType \in PagingTypes
    /\ \A k \in DOMAIN paging : paging[k].type \in PagingTypes

\* C4: classify_paging depends only on which names are present and returns
\* the tag of the first rule, in the fixed order, that the names satisfy.
C4_ClassifierPriority ==
    call.fn = "classify_paging" /\ call.done =>
        LET s == Range(call.props)
            r == call.ret
            Counted == {"pageNumber", "pageSize"} \subseteq s
                       /\ {"pageCount", "total", "totalCount"} \cap s # {}
        IN /\ r \in PagingTypes
           /\ r = "NEXT_URI" <=> "nextUri" \in s
           /\ r = "NEXT_PAGE" <=> "nextPage" \in s /\ "nextUri" \notin s
           /\ r = "CURSOR" <=>
                  "cursor" \in s /\ {"nextUri", "nextPage"} \cap s = {}
           /\ r = "AFTER" <=>
                  "after" \in s /\ {"nextUri", "nextPage", "cursor"} \cap s = {}
           /\ r = "PAGE_NUMBER" <=>
                  Counted
                  /\ {"nextUri", "nextPage", "cursor", "after"} \cap s = {}
           /\ r = "TOTALHITS" <=>
                  "totalHits" \in s /\ ~Counted
                  /\ {"nextUri", "nextPage", "cursor", "after"} \cap s = {}
           /\ r = "START_INDEX" <=>
                  {"startIndex", "pageSize"} \subseteq s /\ ~Counted
                  /\ {"nextUri", "nextPage", "cursor", "after", "totalHits"}
                         \cap s = {}
           /\ s = {"pageNumber", "pageSize", "total"} => r = "PAGE_NUMBER"
           /\ s = {"pageNumber", "pageSize"} => r = "UNKNOWN"

C4_Witness ==
    /\ call.fn = "classify_paging"
    /\ call.done
    /\ {"nextUri", "cursor"} \subseteq Range(call.props)
    /\ call.ret = "NEXT_URI"

\* C5: the effective paging type and items path of an operation are taken
\* field by field from the registry entry found under the catalog key or,
\* when there is none, under the operation identifier; a field the entry
\* does not define with a non-empty value keeps its heuristic value.
C5_OverrideFieldByField ==
    last.catalog_key # None =>
        LET entry == IF last.catalog_key \in DOMAIN paging_registry
                     THEN paging_registry[last.catalog_key]
                     ELSE IF last.op_id \in DOMAIN paging_registry
                          THEN paging_registry[last.op_id]
                          ELSE EmptyDict
            Defines(f) == f \in DOMAIN entry /\ entry[f] # ""
            type == IF Defines("type") THEN entry["type"]
                    ELSE last.heur.paging_type
            items == IF Defines("itemsPath") THEN entry["itemsPath"]
                     ELSE last.heur.items_path
        IN /\ operations[last.catalog_key].pagingType = type
           /\ operations[last.catalog_key].responseItemsPath = items
           /\ paging[last.catalog_key].type = type
           /\ paging[last.catalog_key].itemsPath = items
           /\ entry = EmptyDict =>
                  /\ type = last.heur.paging_type
                  /\ items = last.heur.items_path

\* heuristic (CURSOR, $.items) and an override that defines only the type
C5_Witness ==
    /\ last.catalog_key = "x__2"
    /\ last.op_id = "x"
    /\ last.heur.paging_type = "CURSOR"
    /\ last.heur.items_path = "$.items"
    /\ "x__2" \notin DOMAIN paging_registry
    /\ "x" \in DOMAIN paging_registry
    /\ paging_registry["x"] = ("type" :> "TOTALHITS")
    /\ paging["x__2"].type = "TOTALHITS"
    /\ paging["x__2"].itemsPath = "$.items"

\* C6: when a run that disambiguated a catalog key has written its outputs,
\* a collision record for that key has been written with them.
C6_CollisionRecorded ==
    (/\ pc = "done"
     /\ \E k \in DOMAIN operations :
            operations[k].catalogKey # operations[k].operationId)
    => "catalog-collisions.json" \in files

\* C7 (as stated): a missing Swagger document or a missing registry file
\* aborts the run before any output file is written.
C7_MissingInputIsFatal ==
    (~swagger_exists \/ registry_arg = "missing") =>
        /\ files = {}
        /\ pc \notin {"write_operations", "write_paging", "write_stamp", "done"}

\* C7 (amended): a missing Swagger document aborts the run before any output
\* is written; a missing registry file is read as the empty registry and the
\* run goes on.
C7_MissingSwaggerIsFatal ==
    /\ ~swagger_exists => files = {} /\ pc \in {"load_json", "aborted"}
    /\ swagger_exists => pc # "aborted"
    /\ registry_arg = "missing" =>
           /\ pc # "parse_registry"
           /\ paging_registry = EmptyDict
           /\ pc = "done" => files = AllOutputs

C7_Witness ==
    /\ ~swagger_exists
    /\ registry_arg = "missing"
    /\ pc = "aborted"
    /\ files = {}

\* C8 (as stated): a response schema whose $ref does not match
\* #/definitions/<name> always gives paging type UNKNOWN and a null items path.
C8_UnmatchedRefDegrades ==
    call.fn = "done" /\ call.response_schema.ref \in NonMatchingRefs =>
        /\ call.ret.paging_type = "UNKNOWN"
        /\ call.ret.items_path = None

\* C8 (amended): a response schema whose $ref does not match
\* #/definitions/<name> is inspected unexpanded: the results are those of the
\* node's own properties, and UNKNOWN and null when it has none.
C8_UnmatchedRefUnexpanded ==
    call.fn = "done" /\ call.response_schema.ref \in NonMatchingRefs =>
        LET own == call.response_schema.props
            names == [i \in 1..Len(own) |-> own[i][1]]
        IN /\ call.ret.top_props = names
           /\ call.ret.paging_type = classify_paging(names)
           /\ call.ret.items_path = infer_items_path(EmptyDict, Inline(own))
           /\ own = <<>> =>
                  /\ call.ret.paging_type = "UNKNOWN"
                  /\ call.ret.items_path = None

C8_Witness ==
    /\ call.fn = "done"
    /\ call.response_schema.ref = <<"other.json", "#/definitions/", "Page">>
    /\ call.ret.top_props = <<"totalHits", "conversations">>
    /\ call.ret.paging_type = "TOTALHITS"
    /\ call.ret.items_path = "$.conversations"

\* the "properties" infer_items_path reads: those of the resolved schema
ResolvedProps == PropsOf(resolve_ref(call.defs, call.schema))

\* C9 (as stated): the first of entities, results, conversations that is
\* present decides, whatever its type; then the first array-typed property.
C9_FirstPresentName ==
    call.fn = "infer_items_path" /\ call.done =>
        LET Has(n) == \E i \in 1..Len(ResolvedProps) : ResolvedProps[i][1] = n
            arrays == {i \in 1..Len(ResolvedProps) :
                         ResolvedProps[i][2] = "array"}
        IN /\ Has("entities") => call.ret = "$.entities"
           /\ ~Has("entities") /\ Has("results") => call.ret = "$.results"
           /\ ~Has("entities") /\ ~Has("results") /\ Has("conversations") =>
                  call.ret = "$.conversations"
           /\ ~Has("entities") /\ ~Has("results") /\ ~Has("conversations")
              /\ arrays = {} => call.ret = None

\* C9 (amended): the first of entities, results, conversations that is
\* present with type array decides; if none is, the first array-typed
\* property in declaration order; if there is no array-typed property, null.
C9_FirstArrayTypedName ==
    call.fn = "infer_items_path" /\ call.done =>
        LET Arr(n) == <<n, "array">> \in Range(ResolvedProps)
            arrays == {i \in 1..Len(ResolvedProps) :
                         ResolvedProps[i][2] = "array"}
        IN /\ Arr("entities") => call.ret = "$.entities"
           /\ ~Arr("entities") /\ Arr("results") => call.ret = "$.results"
           /\ ~Arr("entities") /\ ~Arr("results") /\ Arr("conversations") =>
                  call.ret = "$.conversations"
           /\ ~Arr("entities") /\ ~Arr("results") /\ ~Arr("conversations") =>
                  /\ arrays = {} => call.ret = None
                  /\ \A i \in arrays :
                         (\A j \in arrays : i <= j) =>
                             call.ret = "$." \o ResolvedProps[i][1]

\* results declared before entities, both arrays
C9_Witness ==
    /\ call.fn = "infer_items_path"
    /\ call.done
    /\ call.schema.props = <<<<"results", "array">>, <<"entities", "array">>>>
    /\ call.schema.ref = <<>>
    /\ call.ret = "$.entities"

\* C10: the response schema is that of the first status code, in the order
\* 200, 201, 202, 203, 204, default, whose response declares a schema;
\* responses without a schema are passed over; with no such response the
\* top-level properties are empty, the items path null, the type UNKNOWN.
C10_FirstDeclaredSchema ==
    call.fn \in {"inspect", "done"} =>
        LET order == <<"200", "201", "202", "203", "204", "default">>
            r == call.responses
            Declares(i) == order[i] \in DOMAIN r /\ r[order[i]].kind = "schema"
        IN IF \E i \in 1..6 : Declares(i)
           THEN \E i \in 1..6 :
                    /\ Declares(i)
                    /\ \A j \in 1..(i - 1) : ~Declares(j)
                    /\ call.response_schema = r[order[i]].schema
           ELSE /\ call.response_schema = NoneSchema
                /\ call.fn = "done" =>
                       /\ call.ret.top_props = <<>>
                       /\ call.ret.items_path = None
                       /\ call.ret.paging_type = "UNKNOWN"

\* 200 declares no schema, 204 does
C10_Witness ==
    /\ call.fn = "done"
    /\ DOMAIN call.responses = {"200", "204"}
    /\ call.responses["200"].kind = "noschema"
    /\ call.responses["204"] = Response(Ref(PageRef))
    /\ call.response_schema = Ref(PageRef)
    /\ call.ret.paging_type = "NEXT_URI"

====
